---- MODULE Spec2Model ----
(***************************************************************************)
(* Lead-Finder: the expiring cache store (src/stages/cache_manager.py).    *)
(*                                                                         *)
(* The persisted store is one JSON file, written through a temporary file  *)
(* and a rename.  Time is counted in ticks of a clock that never goes      *)
(* back, so that the order of the ISO timestamp strings the program sorts  *)
(* by is the order of the ticks.  CACHE_EXPIRY, MAX_CACHE_SIZE and         *)
(* MAX_CACHE_ENTRIES are the program's constants (30 days, 100 MB, 50      *)
(* entries) scaled down to 1 tick, 3 size units and 1 entry, so that       *)
(* expiry and both limits are reached within the bounds.  A payload (the   *)
(* `results` list of an entry) is modelled by its number of records, which *)
(* is also what it adds to the size of the file.                           *)
(*                                                                         *)
(* The other parts of the pipeline have their own specifications, which    *)
(* leave the store idle: deduplicate_leads with its fuzzy matching and     *)
(* merging (src/utils/data_processing.py; SpecDedup, SpecMerge,            *)
(* SpecLocation, SpecResults), where a string is a sequence of character   *)
(* codes; calculate_propensity_score (src/utils/scoring.py; SpecScore),    *)
(* where a text field is a sequence of words; and run_stage3 with its      *)
(* ranks (src/stages/stage3_ranking.py; SpecRank).  run_stage1             *)
(* (src/stages/stage1_identification.py; SpecIngest) is the one that uses  *)
(* the store: it reads and writes it once per query term.                  *)
(***************************************************************************)
EXTENDS Integers, Sequences, FiniteSets, TLC

\* ---- bounds of the model
NumKeys == 3
MaxTime == 2
MaxRecords == 1

\* ---- program constants (scaled)
CACHE_EXPIRY == 1
MAX_CACHE_SIZE == 3
MAX_CACHE_ENTRIES == 1

Keys == 1..NumKeys
Payloads == 0..MaxRecords
Writers == {1, 2}

\* the disk: "reliable" when every open, write, rename and remove succeeds,
\* "faulty" when the operating system may refuse them
Envs == {"reliable", "faulty"}

VARIABLES
    file,         \* content of cache_file
    tmp,          \* content of cache_file + ".tmp"
    now,          \* the clock read by datetime.now()
    last,         \* the call that ran last and what it returned
    pc,           \* step-level writers: position of each writer inside put
    mem,          \* step-level writers: the cache dictionary each writer holds
    arg,          \* step-level writers: the key each writer puts
    hnd,          \* step-level writers: the file the open handle points to
    active,       \* step-level writers: the writers that run
    leads,        \* deduplication: the batch handed to deduplicate_leads
    other,        \* deduplication: the same batch in another order
    perm,         \* deduplication: other[i] is leads[perm[i]]
    processed,    \* deduplication: what deduplicate_leads returned for leads
    clusters,     \* deduplication: the matching_indices of each record returned
    otherProcessed, \* deduplication: what deduplicate_leads returned for other
    stage,        \* deduplication: "input", "permuted" or "done"
    lead,         \* scoring: the lead handed to calculate_propensity_score
    current_year, \* scoring: datetime.now().year
    scored,       \* scoring: what calculate_propensity_score returned, if it ran
    stage2_data,  \* ranking: the batch handed to run_stage3
    ranked,       \* ranking: what run_stage3 returned, if it ran
    criteria,     \* ingestion: the scientific_keywords run_stage1 is called with
    pubmed,       \* ingestion: what search_pubmed returns for each keyword now
    run,          \* ingestion: the position and the locals of run_stage1
    fetched       \* ingestion: for each keyword, the search last cached for it

procVars == <<pc, mem, arg, hnd, active>>
cacheVars == <<file, tmp, now, last, procVars>>
dedupVars == <<leads, other, perm, processed, clusters, otherProcessed, stage>>
scoreVars == <<lead, current_year, scored>>
rankVars == <<stage2_data, ranked>>
stage1Vars == <<criteria, pubmed, run, fetched>>
pipeVars == <<dedupVars, scoreVars, rankVars, stage1Vars>>
vars == <<cacheVars, pipeVars>>

\* ---- file contents
Missing == [kind |-> "missing", search_queries |-> <<>>, total_queries |-> 0]
Garbage == [kind |-> "garbage", search_queries |-> <<>>, total_queries |-> 0]
NonDict == [kind |-> "nondict", search_queries |-> <<>>, total_queries |-> 0]
Unreadable == [kind |-> "unreadable", search_queries |-> <<>>, total_queries |-> 0]
Partial == [kind |-> "partial", search_queries |-> <<>>, total_queries |-> 0]
Doc(q, n) == [kind |-> "doc", search_queries |-> q, total_queries |-> n]

\* ---- the cache dictionary: search_queries is an insertion-ordered dict,
\* modelled as a sequence of entries with distinct keys; error marks a load
\* that raised instead of returning
Entry(k, t, r) == [key |-> k, timestamp |-> t, results |-> r]
Cache(q, n) == [search_queries |-> q, total_queries |-> n, error |-> FALSE]
LoadError == [search_queries |-> <<>>, total_queries |-> 0, error |-> TRUE]

KeysOf(q) == {q[i].key : i \in 1..Len(q)}
HasKey(q, k) == k \in KeysOf(q)
IndexOf(q, k) == CHOOSE i \in 1..Len(q) : q[i].key = k
Lookup(q, k) == q[IndexOf(q, k)]
DelKey(q, k) == SelectSeq(q, LAMBDA e : e.key # k)
SetKey(q, e) ==
    IF HasKey(q, e.key)
    THEN [i \in 1..Len(q) |-> IF q[i].key = e.key THEN e ELSE q[i]]
    ELSE Append(q, e)

Min(a, b) == IF a < b THEN a ELSE b

RECURSIVE SumResults(_)
SumResults(q) == IF q = <<>> THEN 0 ELSE 1 + Head(q).results + SumResults(Tail(q))
FileSize(f) == IF f.kind = "doc" THEN 1 + SumResults(f.search_queries) ELSE 1

\* ---- expiry
\* an expiry test that is one tick late
IsExpiredLate(t, at) == t < at - CACHE_EXPIRY - 1
IsExpired(t, at) == t < at - CACHE_EXPIRY

CleanupExpired(cache, at) ==
    LET kept == SelectSeq(cache.search_queries,
                          LAMBDA e : ~IsExpired(e.timestamp, at))
    IN  IF Len(kept) # Len(cache.search_queries)
        THEN Cache(kept, Len(kept))
        ELSE cache

\* ---- eviction
\* sorted(..., key=timestamp, reverse=True) is stable: among equal timestamps
\* the entry that comes first in the dict stays first
Rank(q, i) ==
    Cardinality({j \in 1..Len(q) :
        \/ q[j].timestamp > q[i].timestamp
        \/ (q[j].timestamp = q[i].timestamp /\ j < i)})
SortedNewestFirst(q) ==
    [p \in 1..Len(q) |-> q[CHOOSE i \in 1..Len(q) : Rank(q, i) = p - 1]]

\* the sort without reverse=True: the oldest entries are the ones kept
RemoveNewest(cache, keep_count) ==
    LET n == Len(cache.search_queries)
        sorted_entries == SortedNewestFirst(cache.search_queries)
        kept == SubSeq(sorted_entries, n - Min(keep_count, n) + 1, n)
    IN  Cache(kept, Len(kept))

RemoveOldest(cache, keep_count) ==
    LET sorted_entries == SortedNewestFirst(cache.search_queries)
        kept == SubSeq(sorted_entries, 1, Min(keep_count, Len(sorted_entries)))
    IN  Cache(kept, Len(kept))

\* the limits without the entry-count check
EnforceSizeOnly(cache, file_size) ==
    IF file_size > MAX_CACHE_SIZE
    THEN RemoveOldest(cache, MAX_CACHE_ENTRIES)
    ELSE cache

EnforceSizeLimits(cache, file_size) ==
    LET bySize == IF file_size > MAX_CACHE_SIZE
                  THEN RemoveOldest(cache, MAX_CACHE_ENTRIES)
                  ELSE cache
    IN  IF Len(bySize.search_queries) > MAX_CACHE_ENTRIES
        THEN RemoveOldest(bySize, MAX_CACHE_ENTRIES)
        ELSE bySize

\* ---- load
CreateEmptyCache == Cache(<<>>, 0)

\* json.load raises JSONDecodeError on these contents
Unparsable(f) == f.kind \in {"garbage", "partial"}

\* load_cache without its catch-all handler and without the isinstance test
LoadCacheUnguarded(f, at) ==
    CASE f.kind = "missing"    -> CreateEmptyCache
      [] f.kind = "unreadable" -> LoadError
      [] Unparsable(f)         -> CreateEmptyCache
      [] f.kind = "nondict"    -> LoadError
      [] f.kind = "doc"        ->
            EnforceSizeLimits(
                CleanupExpired(Cache(f.search_queries, f.total_queries), at),
                FileSize(f))

LoadCache(f, at) ==
    CASE f.kind = "missing"    -> CreateEmptyCache
      [] f.kind = "unreadable" -> CreateEmptyCache
      [] Unparsable(f)         -> CreateEmptyCache
      [] f.kind = "nondict"    -> CreateEmptyCache
      [] f.kind = "doc"        ->
            EnforceSizeLimits(
                CleanupExpired(Cache(f.search_queries, f.total_queries), at),
                FileSize(f))

\* the keys that load_cache dropped through _remove_oldest_entries
EvictedOnLoad(f, at) ==
    IF f.kind = "doc"
    THEN KeysOf(CleanupExpired(Cache(f.search_queries, f.total_queries), at).search_queries)
             \ KeysOf(LoadCache(f, at).search_queries)
    ELSE {}

\* the file and the quarantine after load_cache: only a JSONDecodeError calls
\* _backup_corrupted_cache, whose rename the operating system may refuse
RenameOutcomes(f, env) ==
    IF Unparsable(f) /\ env = "faulty" THEN BOOLEAN ELSE {TRUE}
BackupCorruptedCache(f, renamed) ==
    IF Unparsable(f) /\ renamed THEN Missing ELSE f
\* what the call renamed aside to cache_file.corrupted.<stamp>
Quarantined(f, renamed) ==
    IF Unparsable(f) /\ renamed THEN f.kind ELSE "nothing"

\* ---- save
\* "write": open(temp_file, 'w') raises PermissionError, the temporary file is
\* left as it was; "rename": os.replace raises OSError, the handler removes
\* the temporary file
Faults == {"none", "write", "rename"}
SaveFaults(env) == IF env = "faulty" THEN Faults ELSE {"none"}

\* save_cache answering True whatever happened
SaveCacheUnreported(cache, f, t, fault) ==
    LET doc == Doc(cache.search_queries, Len(cache.search_queries))
    IN  CASE fault = "none"   -> [file |-> doc, tmp |-> Missing, ok |-> TRUE]
          [] fault = "write"  -> [file |-> f, tmp |-> t, ok |-> TRUE]
          [] fault = "rename" -> [file |-> f, tmp |-> Missing, ok |-> TRUE]

SaveCache(cache, f, t, fault) ==
    LET doc == Doc(cache.search_queries, Len(cache.search_queries))
    IN  CASE fault = "none"   -> [file |-> doc, tmp |-> Missing, ok |-> TRUE]
          [] fault = "write"  -> [file |-> f, tmp |-> t, ok |-> FALSE]
          [] fault = "rename" -> [file |-> f, tmp |-> Missing, ok |-> FALSE]

\* ---- what a call did: its boolean result (ok), the value it returned
\* (val; Absent is None), the keys its load evicted, the content its load
\* renamed aside, whether it raised, what went wrong in its save_cache
Absent == 0 - 1
Ret(op, k, ok, val, ev, qr) ==
    [op |-> op, key |-> k, ok |-> ok, val |-> val, evicted |-> ev,
     quarantined |-> qr, raised |-> FALSE, fault |-> "none"]
Raised(op, k) ==
    [op |-> op, key |-> k, ok |-> FALSE, val |-> Absent, evicted |-> {},
     quarantined |-> "nothing", raised |-> TRUE, fault |-> "none"]
WithFault(ret, fault) == [ret EXCEPT !.fault = fault]
Quiet(op) == Ret(op, 0, TRUE, 0, {}, "nothing")

\* no batch is being deduplicated
DedupIdle ==
    /\ leads = <<>>
    /\ other = <<>>
    /\ perm = <<>>
    /\ processed = <<>>
    /\ clusters = <<>>
    /\ otherProcessed = <<>>
    /\ stage = "idle"

\* no lead is being scored
ScoreIdle ==
    /\ lead = <<>>
    /\ current_year = 0
    /\ scored = <<>>

\* no batch is being ranked
RankIdle ==
    /\ stage2_data = <<>>
    /\ ranked = <<>>

\* run_stage1 is not running
NotRunning ==
    [phase |-> "idle", idx |-> 0, cached_results |-> Absent, all_results |-> <<>>,
     searched |-> <<>>, returned |-> <<>>]
Stage1Idle ==
    /\ criteria = <<>>
    /\ pubmed = <<>>
    /\ run = NotRunning
    /\ fetched = <<>>

PipeIdle == DedupIdle /\ ScoreIdle /\ RankIdle /\ Stage1Idle

InitWith(writers) ==
    /\ file = Missing
    /\ tmp = Missing
    /\ now = 0
    /\ last = Quiet("init")
    /\ pc = [w \in Writers |-> "idle"]
    /\ mem = [w \in Writers |-> CreateEmptyCache]
    /\ arg = [w \in Writers |-> 0]
    /\ hnd = [w \in Writers |-> "none"]
    /\ active = writers
    /\ PipeIdle

Init == InitWith({})

Tick ==
    /\ now < MaxTime
    /\ now' = now + 1
    /\ last' = Quiet("tick")
    /\ UNCHANGED <<file, tmp, procVars, pipeVars>>

\* save_query_results
PutCall(k, r, env) ==
    \E renamed \in RenameOutcomes(file, env), fault \in SaveFaults(env) :
        /\ LET cache == LoadCache(file, now)
               loaded == BackupCorruptedCache(file, renamed)
               q == SetKey(cache.search_queries, Entry(k, now, r))
               saved == SaveCache(Cache(q, cache.total_queries), loaded, tmp, fault)
           IN  IF cache.error
               THEN /\ last' = Raised("put", k)
                    /\ UNCHANGED <<file, tmp>>
               ELSE /\ file' = saved.file
                    /\ tmp' = saved.tmp
                    /\ last' = WithFault(Ret("put", k, saved.ok, 0,
                                              EvictedOnLoad(file, now),
                                              Quarantined(file, renamed)), fault)
        /\ now' = now
\* save_query_results, called on its own
Put(k, r, env) == PutCall(k, r, env) /\ UNCHANGED <<procVars, pipeVars>>

\* a read that saves what it loaded
SaveAfterRead(cache, loaded) == SaveCache(cache, loaded, Missing, "none").file
\* the store file after a get that returns at line 245 or 262: what load_cache
\* left of it, the dictionary it returned being dropped
AfterRead(cache, loaded) == loaded

\* get_cached_results; the clock is read by load_cache and again by the expiry
\* check, el ticks later
GetCall(k, env) ==
    \E el \in 0..1, renamed \in RenameOutcomes(file, env) :
        /\ now + el <= MaxTime
        /\ LET cache == LoadCache(file, now)
               loaded == BackupCorruptedCache(file, renamed)
               queries == cache.search_queries
               ev == EvictedOnLoad(file, now)
               qr == Quarantined(file, renamed)
           IN  IF cache.error
               THEN /\ last' = Raised("get", k)
                    /\ UNCHANGED <<file, tmp>>
               ELSE IF ~HasKey(queries, k)
               THEN /\ file' = AfterRead(cache, loaded)
                    /\ tmp' = tmp
                    /\ last' = Ret("get", k, TRUE, Absent, ev, qr)
               ELSE IF IsExpired(Lookup(queries, k).timestamp, now + el)
               THEN \E fault \in SaveFaults(env) :
                    LET saved == SaveCache(Cache(DelKey(queries, k), cache.total_queries),
                                           loaded, tmp, fault)
                    IN  /\ file' = saved.file
                        /\ tmp' = saved.tmp
                        /\ last' = WithFault(Ret("get", k, TRUE, Absent, ev, qr), fault)
               ELSE /\ file' = AfterRead(cache, loaded)
                    /\ tmp' = tmp
                    /\ last' = Ret("get", k, TRUE, Lookup(queries, k).results, ev, qr)
        /\ now' = now + el
\* get_cached_results, called on its own
Get(k, env) == GetCall(k, env) /\ UNCHANGED <<procVars, pipeVars>>

\* clear_query_cache
ClearOne(k, env) ==
    \E renamed \in RenameOutcomes(file, env) :
        /\ LET cache == LoadCache(file, now)
               loaded == BackupCorruptedCache(file, renamed)
               ev == EvictedOnLoad(file, now)
               qr == Quarantined(file, renamed)
           IN  IF cache.error
               THEN /\ last' = Raised("clear_one", k)
                    /\ UNCHANGED <<file, tmp>>
               ELSE IF HasKey(cache.search_queries, k)
               THEN \E fault \in SaveFaults(env) :
                    LET q == DelKey(cache.search_queries, k)
                        saved == SaveCache(Cache(q, Len(q)), loaded, tmp, fault)
                    IN  /\ file' = saved.file
                        /\ tmp' = saved.tmp
                        /\ last' = WithFault(Ret("clear_one", k, saved.ok, 0, ev, qr),
                                              fault)
               ELSE /\ file' = loaded
                    /\ tmp' = tmp
                    /\ last' = Ret("clear_one", k, TRUE, 0, ev, qr)
        /\ UNCHANGED <<now, procVars, pipeVars>>

\* clear_all_cache
ClearAll(env) ==
    \E removed \in (IF file.kind # "missing" /\ env = "faulty" THEN BOOLEAN ELSE {TRUE}) :
        /\ file' = IF removed THEN Missing ELSE file
        /\ last' = Ret("clear_all", 0, removed, 0, {}, "nothing")
        /\ UNCHANGED <<tmp, now, procVars, pipeVars>>

\* get_cache_info: total_queries of the returned dictionary
Info(env) ==
    \E renamed \in RenameOutcomes(file, env) :
        /\ IF file.kind = "missing" \/ LoadCache(file, now).error
           THEN /\ last' = Ret("info", 0, TRUE, 0, {}, "nothing")
                /\ UNCHANGED file
           ELSE /\ last' = Ret("info", 0, TRUE,
                               Len(LoadCache(file, now).search_queries),
                               EvictedOnLoad(file, now), Quarantined(file, renamed))
                /\ file' = BackupCorruptedCache(file, renamed)
        /\ UNCHANGED <<tmp, now, procVars, pipeVars>>

\* the environment damages the stored file
Corrupt(f) ==
    /\ file.kind = "doc"
    /\ file' = f
    /\ last' = Quiet("corrupt")
    /\ UNCHANGED <<tmp, now, procVars, pipeVars>>

Calls(env) ==
    \/ \E k \in Keys, r \in Payloads : Put(k, r, env)
    \/ \E k \in Keys : Get(k, env)
    \/ \E k \in Keys : ClearOne(k, env)
    \/ ClearAll(env)
    \/ Info(env)

Next ==
    \/ Tick
    \/ Calls("faulty")
    \/ \E f \in {Garbage, NonDict, Unreadable} : Corrupt(f)

Spec == Init /\ [][Next]_vars

\* the same calls on a disk that never refuses an operation
NextReliable ==
    \/ Tick
    \/ Calls("reliable")
    \/ \E f \in {Garbage, NonDict, Unreadable} : Corrupt(f)

SpecReliable == Init /\ [][NextReliable]_vars

\* ---- the calls as functions of the store file, on a disk that never
\* refuses: the file save_query_results leaves, the value get_cached_results
\* returns and the file clear_query_cache leaves, at clock reading `at`
PutFile(f, k, r, at) ==
    LET cache == LoadCache(f, at)
        q == SetKey(cache.search_queries, Entry(k, at, r))
    IN  SaveCache(Cache(q, cache.total_queries),
                  BackupCorruptedCache(f, TRUE), Missing, "none").file

GetVal(f, k, at) ==
    LET queries == LoadCache(f, at).search_queries
    IN  IF ~HasKey(queries, k) THEN Absent
        ELSE IF IsExpired(Lookup(queries, k).timestamp, at) THEN Absent
        ELSE Lookup(queries, k).results

\* ---- save_query_results step by step: load and mutate, open the temporary
\* file, dump and close, rename

\* save_cache writing the store file in place
TempFileInPlace == "file"
\* the path save_cache writes to before the rename
TempFile == "tmp"

Begin(w, k, r) ==
    /\ w \in active
    /\ pc[w] = "idle"
    /\ LET cache == LoadCache(file, now)
       IN  mem' = [mem EXCEPT ![w] =
                      Cache(SetKey(cache.search_queries, Entry(k, now, r)),
                            cache.total_queries)]
    /\ arg' = [arg EXCEPT ![w] = k]
    /\ pc' = [pc EXCEPT ![w] = "loaded"]
    /\ file' = BackupCorruptedCache(file, TRUE)
    /\ UNCHANGED <<tmp, now, last, hnd, active, pipeVars>>

\* open(temp_file, 'w') creates the file or truncates it
OpenTmp(w) ==
    /\ w \in active
    /\ pc[w] = "loaded"
    /\ tmp' = IF TempFile = "tmp" THEN Partial ELSE tmp
    /\ file' = IF TempFile = "file" THEN Partial ELSE file
    /\ hnd' = [hnd EXCEPT ![w] = TempFile]
    /\ pc' = [pc EXCEPT ![w] = "opened"]
    /\ UNCHANGED <<now, last, mem, arg, active, pipeVars>>

\* json.dump and close: the bytes go to the file the handle points to, under
\* whatever name it has by now; over bytes another writer put there since the
\* truncation the result is this document or a mixture of the two
WriteOutcomes(existing, doc) ==
    IF existing.kind = "doc" /\ existing # doc THEN {doc, Partial} ELSE {doc}

WriteTmp(w) ==
    /\ w \in active
    /\ pc[w] = "opened"
    /\ LET doc == Doc(mem[w].search_queries, Len(mem[w].search_queries))
       IN  \E written \in WriteOutcomes(IF hnd[w] = "tmp" THEN tmp ELSE file, doc) :
               /\ tmp' = IF hnd[w] = "tmp" THEN written ELSE tmp
               /\ file' = IF hnd[w] = "file" THEN written ELSE file
    /\ hnd' = [hnd EXCEPT ![w] = "none"]
    /\ pc' = [pc EXCEPT ![w] = "written"]
    /\ UNCHANGED <<now, last, mem, arg, active, pipeVars>>

\* os.replace(temp_file, cache_file) when the temporary file exists; a handle
\* another writer holds on it now points to the store file
Rename(w) ==
    /\ w \in active
    /\ pc[w] = "written"
    /\ LET source == IF TempFile = "tmp" THEN tmp ELSE file
       IN  IF source.kind # "missing"
           THEN /\ file' = source
                /\ tmp' = IF TempFile = "tmp" THEN Missing ELSE tmp
                /\ hnd' = [v \in Writers |-> IF hnd[v] = "tmp" THEN "file" ELSE hnd[v]]
                /\ last' = Ret("put", arg[w], TRUE, 0, {}, "nothing")
           ELSE /\ last' = Ret("put", arg[w], FALSE, 0, {}, "nothing")
                /\ UNCHANGED <<file, tmp, hnd>>
    /\ pc' = [pc EXCEPT ![w] = "done"]
    /\ UNCHANGED <<now, mem, arg, active, pipeVars>>

\* the caller goes on to its next put
Return(w) ==
    /\ w \in active
    /\ pc[w] = "done"
    /\ pc' = [pc EXCEPT ![w] = "idle"]
    /\ mem' = [mem EXCEPT ![w] = CreateEmptyCache]
    /\ arg' = [arg EXCEPT ![w] = 0]
    /\ UNCHANGED <<file, tmp, now, last, hnd, active, pipeVars>>

\* the process dies inside save_query_results; the files stay as they are
Crash(w) ==
    /\ w \in active
    /\ pc[w] \in {"loaded", "opened", "written"}
    /\ pc' = [pc EXCEPT ![w] = "idle"]
    /\ mem' = [mem EXCEPT ![w] = CreateEmptyCache]
    /\ hnd' = [hnd EXCEPT ![w] = "none"]
    /\ arg' = [arg EXCEPT ![w] = 0]
    /\ last' = Quiet("crash")
    /\ UNCHANGED <<file, tmp, now, active, pipeVars>>

\* one writer, which may die at any step
NextCrash ==
    \/ \E w \in Writers, k \in Keys, r \in Payloads : Begin(w, k, r)
    \/ \E w \in Writers : OpenTmp(w)
    \/ \E w \in Writers : WriteTmp(w)
    \/ \E w \in Writers : Rename(w)
    \/ \E w \in Writers : Return(w)
    \/ \E w \in Writers : Crash(w)

SpecCrash == InitWith({1}) /\ [][NextCrash]_vars

\* two callers, each running one put, their steps interleaved
NextConc ==
    \/ \E w \in Writers, k \in Keys, r \in Payloads : Begin(w, k, r)
    \/ \E w \in Writers : OpenTmp(w)
    \/ \E w \in Writers : WriteTmp(w)
    \/ \E w \in Writers : Rename(w)

SpecConc == InitWith(Writers) /\ [][NextConc]_vars

(***************************************************************************)
(* Deduplication (src/utils/data_processing.py).                           *)
(*                                                                         *)
(* A string is a sequence of characters, a character a number: 0 is the    *)
(* space, 1..9 are lower-case letters, 11..19 the same letters in upper    *)
(* case, 20 is the semicolon and 21..29 are digits.  fuzzywuzzy is a       *)
(* library the program imports: Ratio and TokenSetRatio compute what its   *)
(* fuzz.ratio and fuzz.token_set_ratio document, 2*M/T as a rounded        *)
(* percentage, M the characters of a longest common subsequence and T the  *)
(* two lengths together.                                                   *)
(***************************************************************************)
SIMILARITY_THRESHOLD == 85
COMPANY_THRESHOLD == 80

SPACE == 0
SEMICOLON == 20
Max(a, b) == IF a > b THEN a ELSE b

\* str.lower() and str.strip()
Lower(s) == [i \in 1..Len(s) |-> IF s[i] > 10 /\ s[i] < 20 THEN s[i] - 10 ELSE s[i]]
RECURSIVE LStrip(_)
LStrip(s) == IF s # <<>> /\ Head(s) = SPACE THEN LStrip(Tail(s)) ELSE s
RECURSIVE RStrip(_)
RStrip(s) ==
    IF s # <<>> /\ s[Len(s)] = SPACE THEN RStrip(SubSeq(s, 1, Len(s) - 1)) ELSE s
Strip(s) == RStrip(LStrip(s))

\* the order of Python strings
RECURSIVE LexLess(_, _)
LexLess(a, b) ==
    IF b = <<>> THEN FALSE
    ELSE IF a = <<>> THEN TRUE
    ELSE IF Head(a) # Head(b) THEN Head(a) < Head(b)
    ELSE LexLess(Tail(a), Tail(b))

RECURSIVE Lcs(_, _)
Lcs(a, b) ==
    IF a = <<>> \/ b = <<>> THEN 0
    ELSE IF Head(a) = Head(b) THEN 1 + Lcs(Tail(a), Tail(b))
    ELSE Max(Lcs(Tail(a), b), Lcs(a, Tail(b)))

\* fuzz.ratio: 100 for equal strings, 0 when one is empty, else
\* int(round(100 * 2*M/T))
Ratio(a, b) ==
    IF a = b THEN 100
    ELSE IF a = <<>> \/ b = <<>> THEN 0
    ELSE (400 * Lcs(a, b) + Len(a) + Len(b)) \div (2 * (Len(a) + Len(b)))

\* str.split(): the set of the words of a string
RECURSIVE Tokens(_, _)
Tokens(s, word) ==
    IF s = <<>> THEN (IF word = <<>> THEN {} ELSE {word})
    ELSE IF Head(s) = SPACE
         THEN (IF word = <<>> THEN {} ELSE {word}) \cup Tokens(Tail(s), <<>>)
         ELSE Tokens(Tail(s), Append(word, Head(s)))

\* " ".join(sorted(words))
RECURSIVE SortedJoin(_)
SortedJoin(words) ==
    IF words = {} THEN <<>>
    ELSE LET first == CHOOSE w \in words : \A v \in words \ {w} : LexLess(w, v)
             rest == SortedJoin(words \ {first})
         IN  IF rest = <<>> THEN first ELSE first \o <<SPACE>> \o rest

\* fuzz.token_set_ratio: the best ratio among the common words and the common
\* words followed by the words of either string alone
TokenSetRatio(a, b) ==
    LET tokens1 == Tokens(a, <<>>)
        tokens2 == Tokens(b, <<>>)
        sorted_sect == SortedJoin(tokens1 \cap tokens2)
        combined_1to2 == Strip(sorted_sect \o <<SPACE>> \o SortedJoin(tokens1 \ tokens2))
        combined_2to1 == Strip(sorted_sect \o <<SPACE>> \o SortedJoin(tokens2 \ tokens1))
    IN  IF tokens1 = {} \/ tokens2 = {} THEN 0
        ELSE Max(Ratio(sorted_sect, combined_1to2),
                 Max(Ratio(sorted_sect, combined_2to1),
                     Ratio(combined_1to2, combined_2to1)))

\* _is_same_person
IsSamePerson(lead1, lead2, threshold) ==
    LET name1 == Strip(Lower(lead1.name))
        name2 == Strip(Lower(lead2.name))
        company1 == Strip(Lower(lead1.company))
        company2 == Strip(Lower(lead2.company))
        name_match == Max(Ratio(name1, name2), TokenSetRatio(name1, name2)) >= threshold
        company_match ==
            IF company1 # <<>> /\ company2 # <<>>
            THEN Ratio(company1, company2) >= COMPANY_THRESHOLD \/ company1 = company2
            ELSE TRUE
    IN  IF name1 = <<>> \/ name2 = <<>> THEN FALSE
        ELSE name_match /\ company_match

\* a lead: lead.get(field, '') gives the empty string for a field it lacks
Lead(name, company, pubmed_id) ==
    [name |-> name, company |-> company, publication_title |-> <<>>,
     email |-> <<>>, location |-> <<>>, author_position |-> "",
     pubmed_id |-> pubmed_id, publication_journal |-> <<>>,
     publication_date |-> <<>>]

\* the literal "Unknown", cut to its first two letters
UNKNOWN == <<15, 4>>

\* f"{a}; {b}" and '; '.join([a, b])
JoinBoth(a, b) == a \o <<SEMICOLON, SPACE>> \o b

\* a priority table that ranks the last author above the first
PriorityLastOverFirst(pos) ==
    CASE pos = "Corresponding Author" -> 4
      [] pos = "First Author"         -> 2
      [] pos = "Last Author"          -> 3
      [] pos = "Co-Author"            -> 1
      [] OTHER                        -> 0

\* priority.get(pos, 0)
Priority(pos) ==
    CASE pos = "Corresponding Author" -> 4
      [] pos = "First Author"         -> 3
      [] pos = "Last Author"          -> 2
      [] pos = "Co-Author"            -> 1
      [] OTHER                        -> 0

\* a merge that keeps the value it has and only fills an empty one
KeepFirst(v1, v2) == IF v1 = <<>> /\ v2 # <<>> THEN v2 ELSE v1

\* the rule of publication_title, pubmed_id and publication_journal, which
\* is also the rule of email with its two branches in the other order
KeepAll(v1, v2) ==
    IF v1 # <<>> /\ v2 # <<>> /\ v1 # v2 THEN JoinBoth(v1, v2)
    ELSE IF v1 = <<>> /\ v2 # <<>> THEN v2
    ELSE v1

\* a rule that takes the value met last
TakeLatest(v1, v2) == IF v2 # <<>> THEN v2 ELSE v1
\* the rule of location: the other record's value only where there is none
FillIfEmpty(v1, v2) == IF v1 = <<>> /\ v2 # <<>> THEN v2 ELSE v1

\* _merge_lead_data
MergeLeadData(lead1, lead2) ==
    [lead1 EXCEPT
        !.publication_title = KeepAll(lead1.publication_title, lead2.publication_title),
        !.email = KeepAll(lead1.email, lead2.email),
        !.location = FillIfEmpty(lead1.location, lead2.location),
        !.company = IF lead1.company = UNKNOWN /\ lead2.company # <<>>
                         /\ lead2.company # UNKNOWN
                     THEN lead2.company ELSE lead1.company,
        !.author_position =
            IF Priority(lead2.author_position) > Priority(lead1.author_position)
            THEN lead2.author_position ELSE lead1.author_position,
        !.pubmed_id = KeepAll(lead1.pubmed_id, lead2.pubmed_id),
        !.publication_journal =
            KeepAll(lead1.publication_journal, lead2.publication_journal),
        !.publication_date =
            IF lead2.publication_date # <<>>
                 /\ (lead1.publication_date = <<>>
                       \/ LexLess(lead1.publication_date, lead2.publication_date))
            THEN lead2.publication_date ELSE lead1.publication_date]

\* a scan that tests a later lead against the record merged so far
ComparedWithMerged(lead1, merged_lead) == merged_lead
\* the record a later lead is tested against: lead1, the lead as it came in
ComparedWith(lead1, merged_lead) == lead1

\* a result list that grows at the front
PrependProcessed(processed_list, merged_lead) == <<merged_lead>> \o processed_list
\* processed.append(merged_lead)
AppendProcessed(processed_list, merged_lead) == Append(processed_list, merged_lead)

\* a scan that gives up at the first later lead that does not match
RECURSIVE ScanAdjacent(_, _, _, _)
ScanAdjacent(batch, i, j, st) ==
    IF j > Len(batch) THEN st
    ELSE IF j \in st.seen_indices THEN ScanAdjacent(batch, i, j + 1, st)
    ELSE IF IsSamePerson(ComparedWith(batch[i], st.merged_lead), batch[j],
                         SIMILARITY_THRESHOLD)
    THEN ScanAdjacent(batch, i, j + 1,
                      [merged_lead |-> MergeLeadData(st.merged_lead, batch[j]),
                       matching_indices |-> Append(st.matching_indices, j),
                       seen_indices |-> st.seen_indices \cup {j}])
    ELSE st

\* a scan that does not record what it merged
ForgetSeen(seen_indices, j) == seen_indices
\* seen_indices.add(j)
MarkSeen(seen_indices, j) == seen_indices \cup {j}

\* the inner loop of deduplicate_leads, from index j on
RECURSIVE ScanLater(_, _, _, _)
ScanLater(batch, i, j, st) ==
    IF j > Len(batch) THEN st
    ELSE IF j \in st.seen_indices THEN ScanLater(batch, i, j + 1, st)
    ELSE IF IsSamePerson(ComparedWith(batch[i], st.merged_lead), batch[j],
                         SIMILARITY_THRESHOLD)
    THEN ScanLater(batch, i, j + 1,
                   [merged_lead |-> MergeLeadData(st.merged_lead, batch[j]),
                    matching_indices |-> Append(st.matching_indices, j),
                    seen_indices |-> MarkSeen(st.seen_indices, j)])
    ELSE ScanLater(batch, i, j + 1, st)

\* the outer loop of deduplicate_leads, from index i on
RECURSIVE SeedLoop(_, _, _)
SeedLoop(batch, i, out) ==
    IF i > Len(batch) THEN out
    ELSE IF i \in out.seen_indices THEN SeedLoop(batch, i + 1, out)
    ELSE LET st == ScanLater(batch, i, i + 1,
                             [merged_lead |-> batch[i],
                              matching_indices |-> <<i>>,
                              seen_indices |-> out.seen_indices])
         IN  SeedLoop(batch, i + 1,
                      [processed |-> AppendProcessed(out.processed, st.merged_lead),
                       clusters |-> Append(out.clusters, st.matching_indices),
                       seen_indices |-> st.seen_indices \cup {i}])

\* deduplicate_leads: the list it returns and, for each record of that list,
\* the matching_indices of its cluster
DedupRun(batch) ==
    SeedLoop(batch, 1, [processed |-> <<>>, clusters |-> <<>>, seen_indices |-> {}])
DeduplicateLeads(batch) == DedupRun(batch).processed

\* a publication_date that is a number, such as 2023, where the other leads
\* carry strings
YEAR_NUMBER == <<99>>
\* _merge_lead_data raises: date2 > date1 between a number and a string
MergeRaises(lead1, lead2) ==
    /\ lead2.publication_date # <<>>
    /\ lead1.publication_date # <<>>
    /\ (lead1.publication_date = YEAR_NUMBER) # (lead2.publication_date = YEAR_NUMBER)

\* merging the members of a cluster into merged_lead, one after the other,
\* raises
RECURSIVE ClusterRaises(_, _, _)
ClusterRaises(batch, merged_lead, members) ==
    IF members = <<>> THEN FALSE
    ELSE \/ MergeRaises(merged_lead, batch[Head(members)])
         \/ ClusterRaises(batch, MergeLeadData(merged_lead, batch[Head(members)]),
                          Tail(members))
\* deduplicate_leads raises: the clusters do not depend on what the merges
\* return, so a merge that raises is met as soon as some cluster has one
DedupRaises(batch) ==
    \E k \in 1..Len(DedupRun(batch).clusters) :
        LET members == DedupRun(batch).clusters[k]
        IN  ClusterRaises(batch, batch[Head(members)], Tail(members))

\* the deduplication block of run_stage1: the original results if
\* deduplicate_leads raises
DeduplicatedResults(all_results) ==
    IF DedupRaises(all_results) THEN all_results ELSE DeduplicateLeads(all_results)

\* ---- the batches deduplicate_leads is run on
MaxBatch == 3

\* names "ja do", "do", "jo do" and "Do ja " (d 1, o 2, j 3, a 8); companies
\* "Un", "unk" and "unkx" (u 5, n 4, k 6, x 7); PubMed ids "1", "2", "3"
DedupPool ==
    { Lead(<<3, 8, 0, 1, 2>>, UNKNOWN, <<21>>),
      Lead(<<1, 2>>, <<5, 4, 6>>, <<22>>),
      Lead(<<3, 2, 0, 1, 2>>, <<5, 4, 6, 7>>, <<23>>),
      Lead(<<1, 2>>, <<>>, <<21>>),
      Lead(<<>>, UNKNOWN, <<22>>),
      Lead(<<11, 2, 0, 3, 8, 0>>, <<5, 4, 6>>, <<23>>),
      Lead(<<3, 2, 0, 1, 2>>, UNKNOWN, <<>>),
      Lead(<<3, 8, 0, 1, 2>>, <<5, 4, 6, 7>>, <<22>>) }

\* leads of one person that differ in the fields a merge combines
Positions ==
    {"Corresponding Author", "First Author", "Last Author", "Co-Author",
     "Reviewer", ""}
TextValue(base, v) == IF v = 0 THEN <<>> ELSE <<base + v>>
MergePool ==
    { [Lead(<<1, 2>>, <<>>, TextValue(20, (v + 2) % 3)) EXCEPT
          !.publication_title = TextValue(0, v),
          !.email = TextValue(2, (v + 1) % 3),
          !.publication_journal = TextValue(4, (2 * v) % 3),
          !.author_position = pos] : v \in 0..2, pos \in Positions }

Batches(pool) == UNION {[1..n -> pool] : n \in 0..MaxBatch}
PermutationsOf(n) == {p \in [1..n -> 1..n] : \A i, j \in 1..n : p[i] = p[j] => i = j}

\* the cache is not in use
CacheIdle ==
    /\ file = Missing
    /\ tmp = Missing
    /\ now = 0
    /\ last = Quiet("init")
    /\ pc = [w \in Writers |-> "idle"]
    /\ mem = [w \in Writers |-> CreateEmptyCache]
    /\ arg = [w \in Writers |-> 0]
    /\ hnd = [w \in Writers |-> "none"]
    /\ active = {}

InitDedup(pool) ==
    /\ CacheIdle
    /\ leads \in Batches(pool)
    /\ other = leads
    /\ perm = [i \in 1..Len(leads) |-> i]
    /\ processed = <<>>
    /\ clusters = <<>>
    /\ otherProcessed = <<>>
    /\ stage = "input"
    /\ ScoreIdle
    /\ RankIdle
    /\ Stage1Idle

\* the caller hands over the same records in another order
Permute(p) ==
    /\ stage = "input"
    /\ other' = [i \in 1..Len(leads) |-> leads[p[i]]]
    /\ perm' = p
    /\ stage' = "permuted"
    /\ UNCHANGED <<cacheVars, scoreVars, rankVars, stage1Vars, leads, processed, clusters,
                   otherProcessed>>

\* deduplicate_leads, on the batch and on the batch in the other order
Deduplicate ==
    /\ stage \in {"input", "permuted"}
    /\ processed' = DeduplicateLeads(leads)
    /\ clusters' = DedupRun(leads).clusters
    /\ otherProcessed' = DeduplicateLeads(other)
    /\ stage' = "done"
    /\ UNCHANGED <<cacheVars, scoreVars, rankVars, stage1Vars, leads, other, perm>>

NextDedup ==
    \/ \E p \in PermutationsOf(Len(leads)) : Permute(p)
    \/ Deduplicate

SpecDedup == InitDedup(DedupPool) /\ [][NextDedup]_vars

\* one person's leads, merged
NextMerge == Deduplicate

SpecMerge == InitDedup(MergePool) /\ [][NextMerge]_vars

\* leads of two persons ("do" and "ja", a name "do" does not match) with and
\* without a location (codes 7, 8 and 9)
LocationPool ==
    { [Lead(<<1, 2>>, <<>>, <<>>) EXCEPT !.location = TextValue(6, v)] : v \in 0..3 }
        \cup { [Lead(<<3, 8>>, <<>>, <<>>) EXCEPT !.location = TextValue(6, v)] : v \in {0, 3} }
NextLocation == Deduplicate

\* leads of two persons with publication dates "24", 2023 and none ("4" is
\* code 24, "2" code 22)
DatePool ==
    { [Lead(<<1, 2>>, <<>>, <<21>>) EXCEPT !.publication_date = <<22, 24>>],
      [Lead(<<1, 2>>, <<>>, <<22>>) EXCEPT !.publication_date = YEAR_NUMBER],
      Lead(<<1, 2>>, <<>>, <<23>>),
      [Lead(<<3, 8>>, <<>>, <<21>>) EXCEPT !.publication_date = <<22, 24>>],
      Lead(<<3, 8>>, <<>>, <<22>>) }

\* the deduplication block of run_stage1 on the results of the searches
DeduplicateResults ==
    /\ stage = "input"
    /\ processed' = DeduplicatedResults(leads)
    /\ clusters' = DedupRun(leads).clusters
    /\ otherProcessed' = processed'
    /\ stage' = "done"
    /\ UNCHANGED <<cacheVars, scoreVars, rankVars, stage1Vars, leads, other, perm>>

NextResults == DeduplicateResults

SpecResults == InitDedup(DatePool) /\ [][NextResults]_vars

(***************************************************************************)
(* Ingestion (src/stages/stage1_identification.py).                        *)
(*                                                                         *)
(* run_stage1 is followed keyword by keyword: the read of the cache, the   *)
(* search and the write of its results are steps between which the clock   *)
(* and the external source may move.  A cache key stands for a keyword     *)
(* with the two other parameters of the query held fixed.  The records a   *)
(* search returns are known by their number, which is what the store keeps *)
(* of a payload: the source returning 1 record and later 2 has changed.    *)
(* The disk refuses nothing here.                                          *)
(***************************************************************************)
Terms == {1, 2}
\* search_pubmed raises
Fails == 0 - 2
SearchOutcomes == {Fails} \cup Payloads
CriteriaPool == UNION {[1..n -> Terms] : n \in {0, 1, 2}}

\* no search has been cached for the keyword
NotFetched == [at |-> Absent, count |-> 0, evicted |-> FALSE]

\* the n records of the keyword k: both keywords find the person "do", with
\* PubMed ids "11", "12", .. under the first and "21", "22", .. under the second
Records(k, n) == [i \in 1..n |-> Lead(<<1, 2>>, <<>>, <<20 + k, 20 + i>>)]

\* a stage that never takes what the cache returns
NeverCached(cached_results) == FALSE
\* if cached_results: None and the empty list are false
IsCached(cached_results) == cached_results # Absent /\ cached_results > 0

\* the next keyword
Advance(r) == [r EXCEPT !.phase = "get", !.idx = @ + 1]

InitIngest ==
    /\ CacheIdle
    /\ DedupIdle
    /\ ScoreIdle
    /\ RankIdle
    /\ criteria \in CriteriaPool
    /\ pubmed \in [Terms -> SearchOutcomes]
    /\ run = NotRunning
    /\ fetched = [k \in Terms |-> NotFetched]

\* run_stage1(criteria) is called; without keywords it returns at once
StartRun ==
    /\ run.phase \in {"idle", "done"}
    /\ run' = IF criteria = <<>>
              THEN [NotRunning EXCEPT !.phase = "done"]
              ELSE [NotRunning EXCEPT !.phase = "get", !.idx = 1]
    /\ UNCHANGED <<cacheVars, dedupVars, scoreVars, rankVars, criteria, pubmed, fetched>>

\* cached_results = cache_manager.get_cached_results(cache_key), and the
\* branch that uses them
CheckCache ==
    /\ run.phase = "get"
    /\ run.idx <= Len(criteria)
    /\ GetCall(criteria[run.idx], "reliable")
    /\ run' = IF IsCached(last'.val)
              THEN Advance([run EXCEPT
                       !.cached_results = last'.val,
                       !.all_results = @ \o Records(criteria[run.idx], last'.val)])
              ELSE [run EXCEPT !.cached_results = last'.val, !.phase = "search"]
    /\ UNCHANGED <<procVars, dedupVars, scoreVars, rankVars, criteria, pubmed, fetched>>

\* search_pubmed raises or finds nothing: the next keyword
SearchInVain ==
    /\ run.phase = "search"
    /\ pubmed[criteria[run.idx]] \in {Fails, 0}
    /\ run' = Advance([run EXCEPT !.searched = Append(@, criteria[run.idx])])
    /\ UNCHANGED <<cacheVars, dedupVars, scoreVars, rankVars, criteria, pubmed, fetched>>

\* search_pubmed returns records: they are added and cached; the entries
\* that the load of save_query_results dropped are saved as dropped
SearchAndCache ==
    /\ run.phase = "search"
    /\ pubmed[criteria[run.idx]] > 0
    /\ PutCall(criteria[run.idx], pubmed[criteria[run.idx]], "reliable")
    /\ run' = Advance([run EXCEPT
                  !.searched = Append(@, criteria[run.idx]),
                  !.all_results = @ \o Records(criteria[run.idx],
                                               pubmed[criteria[run.idx]])])
    /\ fetched' = [k \in Terms |->
                      IF k = criteria[run.idx]
                      THEN [at |-> now, count |-> pubmed[k], evicted |-> FALSE]
                      ELSE IF k \in last'.evicted
                      THEN [fetched[k] EXCEPT !.evicted = TRUE]
                      ELSE fetched[k]]
    /\ UNCHANGED <<procVars, dedupVars, scoreVars, rankVars, criteria, pubmed>>

\* after the last keyword: the deduplication block and the return
FinishRun ==
    /\ run.phase = "get"
    /\ run.idx > Len(criteria)
    /\ run' = [run EXCEPT
                  !.phase = "done",
                  !.returned = IF run.all_results = <<>> THEN <<>>
                               ELSE DeduplicatedResults(run.all_results)]
    /\ UNCHANGED <<cacheVars, dedupVars, scoreVars, rankVars, criteria, pubmed, fetched>>

\* the external source changes what it returns for a keyword
Publish(k, outcome) ==
    /\ pubmed[k] # outcome
    /\ pubmed' = [pubmed EXCEPT ![k] = outcome]
    /\ UNCHANGED <<cacheVars, dedupVars, scoreVars, rankVars, criteria, run, fetched>>

NextIngest ==
    \/ Tick
    \/ StartRun
    \/ CheckCache
    \/ SearchInVain
    \/ SearchAndCache
    \/ FinishRun
    \/ \E k \in Terms, outcome \in SearchOutcomes : Publish(k, outcome)

SpecIngest == InitIngest /\ [][NextIngest]_vars

SpecLocation == InitDedup(LocationPool) /\ [][NextLocation]_vars

(***************************************************************************)
(* Scoring (src/utils/scoring.py).                                         *)
(*                                                                         *)
(* A text field is the sequence of its words, punctuation marks counting   *)
(* as words; `keyword in text` is modelled as the words of the keyword     *)
(* standing next to each other in the text, so a keyword that is only part *)
(* of a longer word is outside the model.  A date is the sequence of its   *)
(* characters.                                                             *)
(***************************************************************************)
\* str.lower(), word by word
LowerWord(w) ==
    CASE w = "Head"         -> "head"
      [] w = "Toxicology"   -> "toxicology"
      [] w = "Safety"       -> "safety"
      [] w = "Scientist"    -> "scientist"
      [] w = "Sales"        -> "sales"
      [] w = "Manager"      -> "manager"
      [] w = "Drug-Induced" -> "drug-induced"
      [] w = "Liver"        -> "liver"
      [] w = "Injury"       -> "injury"
      [] w = "3D"           -> "3d"
      [] w = "Spheroid"     -> "spheroid"
      [] w = "Models"       -> "models"
      [] w = "Kidney"       -> "kidney"
      [] w = "Series"       -> "series"
      [] w = "A"            -> "a"
      [] w = "C"            -> "c"
      [] w = "IPO"          -> "ipo"
      [] w = "Seed"         -> "seed"
      [] w = "Organ-on-chip" -> "organ-on-chip"
      [] w = "Biotech"      -> "biotech"
      [] w = "Boston"       -> "boston"
      [] w = "MA"           -> "ma"
      [] w = "Paris"        -> "paris"
      [] w = "Basel"        -> "basel"
      [] OTHER              -> w
LowerText(text) == [i \in 1..Len(text) |-> LowerWord(text[i])]

\* keyword in text
Contains(text, keyword) ==
    \E i \in 1..(Len(text) - Len(keyword) + 1) :
        SubSeq(text, i, i + Len(keyword) - 1) = keyword
\* any(keyword in text for keyword in keywords)
AnyIn(keywords, text) == \E keyword \in keywords : Contains(text, keyword)

role_keywords ==
    { <<"toxicology">>, <<"safety">>, <<"hepatic">>, <<"3d">>, <<"preclinical">>,
      <<"pre-clinical">>, <<"drug", "safety">>, <<"safety", "assessment">>,
      <<"preclinical", "safety">>, <<"toxicologist">>, <<"safety", "scientist">> }
scientific_keywords ==
    { <<"dili">>, <<"drug-induced", "liver", "injury">>, <<"liver", "toxicity">>,
      <<"hepatic">>, <<"liver", "injury">>, <<"drug-induced">>,
      <<"hepatotoxicity">>, <<"liver", "damage">> }
tech_keywords ==
    { <<"3d">>, <<"in-vitro">>, <<"in", "vitro">>, <<"organ-on-chip">>,
      <<"organ", "on", "chip">>, <<"spheroid">>, <<"cell", "culture">>, <<"nam">>,
      <<"new", "approach", "methodology">>, <<"organoid">>,
      <<"microphysiological">>, <<"mps">> }
\* the cities of the four hubs
hub_cities ==
    { <<"boston">>, <<"cambridge">>, <<"cambridge", ",", "ma">>, <<"boston", ",", "ma">>,
      <<"san", "francisco">>, <<"palo", "alto">>, <<"south", "san", "francisco">>,
      <<"fremont">>, <<"bay", "area">>, <<"menlo", "park">>, <<"san", "jose">>,
      <<"mountain", "view">>, <<"redwood", "city">>,
      <<"basel">>, <<"switzerland">>,
      <<"london">>, <<"oxford">>, <<"cambridgeshire">>, <<"london", ",", "uk">>,
      <<"oxford", ",", "uk">>, <<"cambridge", ",", "uk">> }

\* int(pub_date[:4]): the number the four characters write, or a ValueError
Digits == {"0", "1", "2", "3", "4", "5", "6", "7", "8", "9"}
DigitValue(c) ==
    CASE c = "0" -> 0 [] c = "1" -> 1 [] c = "2" -> 2 [] c = "3" -> 3
      [] c = "4" -> 4 [] c = "5" -> 5 [] c = "6" -> 6 [] c = "7" -> 7
      [] c = "8" -> 8 [] c = "9" -> 9
IsNumber(chars) == chars # <<>> /\ \A i \in 1..Len(chars) : chars[i] \in Digits
RECURSIVE IntOf(_)
IntOf(chars) ==
    IF chars = <<>> THEN 0
    ELSE 10 * IntOf(SubSeq(chars, 1, Len(chars) - 1)) + DigitValue(chars[Len(chars)])

\* _calculate_role_fit_score
RoleFitScore(ld) ==
    LET title == IF ld.linkedin_title # <<>> THEN ld.linkedin_title
                 ELSE IF ld.title # <<>> THEN ld.title
                 ELSE <<>>
    IN  IF title = <<>> THEN 0
        ELSE IF AnyIn(role_keywords, LowerText(title)) THEN 30
        ELSE 0

\* _calculate_scientific_intent_score
ScientificIntentScore(ld, year_now) ==
    LET pub_title == ld.publication_title
        pub_date == ld.publication_date
    IN  IF pub_title = <<>> THEN 0
        ELSE IF ~AnyIn(scientific_keywords, LowerText(pub_title)) THEN 0
        ELSE IF pub_date # <<>> /\ Len(pub_date) >= 4
                  /\ ~IsNumber(SubSeq(pub_date, 1, 4))
             THEN 40
        ELSE IF pub_date # <<>> /\ Len(pub_date) >= 4
                  /\ year_now - IntOf(SubSeq(pub_date, 1, 4)) <= 2
             THEN 40
        ELSE 40

\* _calculate_company_intent_score
CompanyIntentScore(ld) ==
    LET funding_stage_lower == LowerText(ld.company_funding_stage)
    IN  IF ld.company_funding_stage = <<>> THEN 0
        ELSE IF Contains(funding_stage_lower, <<"series", "a">>)
                  \/ Contains(funding_stage_lower, <<"series", "b">>)
             THEN 20
        ELSE IF Contains(funding_stage_lower, <<"series", "c">>)
                  \/ Contains(funding_stage_lower, <<"ipo">>)
             THEN 15
        ELSE 0

\* _calculate_technographic_score
TechnographicScore(ld) ==
    IF \E keyword \in tech_keywords :
           \/ Contains(LowerText(ld.company_industry), keyword)
           \/ Contains(LowerText(ld.publication_title), keyword)
    THEN 15
    ELSE 0

\* _calculate_location_score
LocationScore(ld) ==
    LET location == IF ld.person_location # <<>> THEN ld.person_location
                    ELSE IF ld.company_hq # <<>> THEN ld.company_hq
                    ELSE <<>>
    IN  IF location = <<>> THEN 0
        ELSE IF AnyIn(hub_cities, LowerText(location)) THEN 10
        ELSE 0

\* a total that is not capped
UncappedTotal(total_score) == total_score
\* min(total_score, 100)
CappedTotal(total_score) == Min(total_score, 100)

\* a level whose thresholds are not inclusive
PriorityLevelExclusive(propensity_score) ==
    IF propensity_score > 80 THEN "High"
    ELSE IF propensity_score > 50 THEN "Medium"
    ELSE "Low"
\* the priority level of a score
PriorityLevel(propensity_score) ==
    IF propensity_score >= 80 THEN "High"
    ELSE IF propensity_score >= 50 THEN "Medium"
    ELSE "Low"

\* calculate_propensity_score
CalculatePropensityScore(ld, year_now) ==
    LET score_breakdown ==
            [role_fit |-> RoleFitScore(ld),
             scientific_intent |-> ScientificIntentScore(ld, year_now),
             company_intent |-> CompanyIntentScore(ld),
             technographic |-> TechnographicScore(ld),
             location |-> LocationScore(ld)]
        total_score == score_breakdown.role_fit + score_breakdown.scientific_intent
                           + score_breakdown.company_intent
                           + score_breakdown.technographic + score_breakdown.location
        propensity_score == CappedTotal(total_score)
    IN  [propensity_score |-> propensity_score,
         score_breakdown |-> score_breakdown,
         priority_level |-> PriorityLevel(propensity_score)]

\* ---- the leads calculate_propensity_score is run on
LinkedinTitles == {<<>>, <<"Head", "of", "Toxicology">>, <<"Sales", "Manager">>}
Titles == {<<>>, <<"Safety", "Scientist">>}
PublicationTitles ==
    {<<>>, <<"Drug-Induced", "Liver", "Injury", "in", "3D", "Spheroid", "Models">>,
     <<"hepatic", "clearance">>, <<"Kidney", "Models">>}
PublicationDates ==
    {<<>>, <<"2", "0", "2", "4">>, <<"2", "0", "1", "9", "-", "0", "5">>,
     <<"n", ".", "d", ".">>, <<"2", "1">>}
FundingStages ==
    {<<>>, <<"Series", "A">>, <<"series", "b", "round">>, <<"Series", "C">>,
     <<"IPO">>, <<"Seed">>}
Industries == {<<>>, <<"Organ-on-chip">>, <<"Biotech">>}
PersonLocations == {<<>>, <<"Boston", ",", "MA">>, <<"Paris">>}
CompanyHqs == {<<>>, <<"Basel">>}
Years == {2024, 2026}

ScoringPool ==
    [linkedin_title : LinkedinTitles, title : Titles,
     publication_title : PublicationTitles, publication_date : PublicationDates,
     company_funding_stage : FundingStages, company_industry : Industries,
     person_location : PersonLocations, company_hq : CompanyHqs]

InitScore ==
    /\ CacheIdle
    /\ DedupIdle
    /\ RankIdle
    /\ Stage1Idle
    /\ lead \in {<<ld>> : ld \in ScoringPool}
    /\ current_year \in Years
    /\ scored = <<>>

\* calculate_propensity_score(lead)
Score ==
    /\ scored = <<>>
    /\ lead # <<>>
    /\ scored' = <<CalculatePropensityScore(lead[1], current_year)>>
    /\ UNCHANGED <<cacheVars, dedupVars, rankVars, stage1Vars, lead, current_year>>

NextScore == Score

SpecScore == InitScore /\ [][NextScore]_vars

(***************************************************************************)
(* Ranking (src/stages/stage3_ranking.py).                                 *)
(*                                                                         *)
(* A field of a lead may hold a value that is not a string: None, which is *)
(* false in a test and has no lower(), or a float such as the nan a table  *)
(* import leaves in an empty cell, which is true in a test and has no      *)
(* lower() either.  Both are written as one-word texts that no lead uses.  *)
(***************************************************************************)
NONE == <<"<None>">>
NAN == <<"<nan>">>
\* bool(v)
Truthy(v) == v # <<>> /\ v # NONE
\* v has the method lower()
IsStr(v) == v # NONE /\ v # NAN

\* calculate_propensity_score raises: the first lower() called on a value
\* that is not a string, in the order of the five rules
Raises(ld) ==
    LET title == IF Truthy(ld.linkedin_title) THEN ld.linkedin_title
                 ELSE IF Truthy(ld.title) THEN ld.title
                 ELSE <<>>
        location == IF Truthy(ld.person_location) THEN ld.person_location
                    ELSE IF Truthy(ld.company_hq) THEN ld.company_hq
                    ELSE <<>>
    IN  \/ ~IsStr(title)
        \/ Truthy(ld.publication_title) /\ ~IsStr(ld.publication_title)
        \/ Truthy(ld.company_funding_stage) /\ ~IsStr(ld.company_funding_stage)
        \/ ~IsStr(ld.company_industry)
        \/ ~IsStr(ld.publication_title)
        \/ ~IsStr(location)

\* where nothing raises a None is read only by tests, in which it counts as
\* the empty string, and a publication date that is not a string only by
\* len(), whose TypeError is caught with the same result as an empty date
AsText(v) == IF IsStr(v) THEN v ELSE <<>>
ScoredFields(ld) ==
    [linkedin_title |-> AsText(ld.linkedin_title), title |-> AsText(ld.title),
     publication_title |-> AsText(ld.publication_title),
     publication_date |-> AsText(ld.publication_date),
     company_funding_stage |-> AsText(ld.company_funding_stage),
     company_industry |-> AsText(ld.company_industry),
     person_location |-> AsText(ld.person_location),
     company_hq |-> AsText(ld.company_hq)]

\* the score data of a lead whose scoring failed
ZeroScore ==
    [propensity_score |-> 0,
     score_breakdown |-> [role_fit |-> 0, scientific_intent |-> 0,
                          company_intent |-> 0, technographic |-> 0,
                          location |-> 0],
     priority_level |-> "Low"]

\* ranked_lead = lead.copy(); ranked_lead.update(score_data)
RankedLead(ld, score_data) == score_data @@ ld

\* a failure handler that leaves the lead out
SkipOnFailure(ranked_results, ld) == ranked_results
\* the except branch of the scoring loop
ZeroOnFailure(ranked_results, ld) == Append(ranked_results, RankedLead(ld, ZeroScore))

\* the scoring loop of run_stage3, from record idx on
RECURSIVE ScoreLoop(_, _, _, _)
ScoreLoop(data, idx, ranked_results, year_now) ==
    IF idx > Len(data) THEN ranked_results
    ELSE ScoreLoop(data, idx + 1,
                   IF Raises(data[idx])
                   THEN ZeroOnFailure(ranked_results, data[idx])
                   ELSE Append(ranked_results,
                               RankedLead(data[idx],
                                          CalculatePropensityScore(ScoredFields(data[idx]),
                                                                   year_now))),
                   year_now)

\* a place for x among records sorted by score, highest first: before its ties
PlaceBeforeTies(sorted, x) ==
    Cardinality({i \in 1..Len(sorted) : sorted[i].propensity_score > x.propensity_score})
\* a place for x among records sorted by score, highest first: behind its ties
PlaceBehindTies(sorted, x) ==
    Cardinality({i \in 1..Len(sorted) : sorted[i].propensity_score >= x.propensity_score})

\* list.sort(key = propensity_score, reverse = True): the records are placed
\* one after the other, each behind the records placed before it that have
\* the same score
RECURSIVE SortByScore(_)
SortByScore(results) ==
    IF results = <<>> THEN <<>>
    ELSE LET sorted == SortByScore(SubSeq(results, 1, Len(results) - 1))
             x == results[Len(results)]
             n == PlaceBehindTies(sorted, x)
         IN  SubSeq(sorted, 1, n) \o <<x>> \o SubSeq(sorted, n + 1, Len(sorted))

\* ranks that count the distinct scores
NextRankDense(current_rank, rank_count) == current_rank + 1
\* current_rank += rank_count
NextRank(current_rank, rank_count) == current_rank + rank_count

\* _assign_ranks, from record idx on; current_score is Absent for None
RECURSIVE AssignLoop(_, _, _, _, _)
AssignLoop(results, idx, current_rank, current_score, rank_count) ==
    IF idx > Len(results) THEN results
    ELSE LET score == results[idx].propensity_score
             changed == current_score = Absent \/ score # current_score
             rank == IF changed /\ current_score # Absent
                     THEN NextRank(current_rank, rank_count)
                     ELSE current_rank
             count == IF changed THEN 1 ELSE rank_count + 1
         IN  AssignLoop([results EXCEPT ![idx] = [rank |-> rank] @@ results[idx]],
                        idx + 1, rank, score, count)
AssignRanks(results) == AssignLoop(results, 1, 1, Absent, 0)

\* run_stage3
RunStage3Result(data, year_now) ==
    IF data = <<>> THEN <<>>
    ELSE AssignRanks(SortByScore(ScoreLoop(data, 1, <<>>, year_now)))

\* ---- the batches run_stage3 is run on
MaxRanked == 3
RankLead(name, linkedin_title, title, publication_title, funding, industry, location) ==
    [name |-> name, linkedin_title |-> linkedin_title, title |-> title,
     publication_title |-> publication_title, publication_date |-> <<>>,
     company_funding_stage |-> funding, company_industry |-> industry,
     person_location |-> location, company_hq |-> <<>>]
DiliTitle == <<"Drug-Induced", "Liver", "Injury", "in", "3D", "Spheroid", "Models">>
RankPool ==
    { RankLead("ada", <<"Head", "of", "Toxicology">>, <<>>, DiliTitle, <<>>, <<>>, <<>>),
      RankLead("bob", NONE, <<"Safety", "Scientist">>, DiliTitle, <<>>, <<>>, <<>>),
      RankLead("cyd", <<>>, <<>>, <<"hepatic", "clearance">>, <<>>, <<>>, <<"Boston", ",", "MA">>),
      RankLead("dee", <<>>, <<"Safety", "Scientist">>, <<>>, <<"Series", "A">>, <<>>, NONE),
      RankLead("eve", <<"Head", "of", "Toxicology">>, <<>>, DiliTitle, <<>>, NONE, <<>>),
      RankLead("fay", <<"Sales", "Manager">>, <<>>, <<"Kidney", "Models">>, <<>>, <<>>, <<"Paris">>),
      RankLead("gus", <<>>, NAN, <<>>, <<"Series", "A">>, <<>>, <<>>) }
RankBatches == UNION {[1..n -> RankPool] : n \in 0..MaxRanked}

InitRank ==
    /\ CacheIdle
    /\ DedupIdle
    /\ lead = <<>>
    /\ scored = <<>>
    /\ current_year \in Years
    /\ Stage1Idle
    /\ stage2_data \in RankBatches
    /\ ranked = <<>>

\* run_stage3(stage2_data)
RunStage3 ==
    /\ ranked = <<>>
    /\ ranked' = <<RunStage3Result(stage2_data, current_year)>>
    /\ UNCHANGED <<cacheVars, dedupVars, scoreVars, stage1Vars, stage2_data>>

NextStage3 == RunStage3

SpecRank == InitRank /\ [][NextStage3]_vars

(***************************************************************************)
(* The claims                                                              *)
(***************************************************************************)
IsDoc(f) == f.kind = "doc"
Persisted(f, k) == IsDoc(f) /\ HasKey(f.search_queries, k)
Age(f, k, at) == at - Lookup(f.search_queries, k).timestamp
LoadOps == {"put", "get", "clear_one", "info"}

\* C1: get(key) returns absent, never a payload, when the persisted entry for
\* key is older than the expiry window at the moment get returns.
C1_NoExpiredReturned ==
    [][(/\ last'.op = "get"
        /\ Persisted(file, last'.key)
        /\ Age(file, last'.key, now') > CACHE_EXPIRY)
       => (~last'.raised /\ last'.val = Absent)]_vars

\* a get has just answered absent for a key whose stored entry is expired
C1_Witness ==
    /\ last.op = "get"
    /\ last.val = Absent
    /\ Persisted(file, last.key)
    /\ Age(file, last.key, now) > CACHE_EXPIRY

\* C2: a get on a key whose persisted entry is expired leaves the persisted
\* store without an entry for that key.
C2_PurgePersisted ==
    [][(/\ last'.op = "get"
        /\ Persisted(file, last'.key)
        /\ Age(file, last'.key, now') > CACHE_EXPIRY)
       => ~Persisted(file', last'.key)]_vars

\* C3: the persisted store never holds more than MAX_CACHE_ENTRIES entries.
C3_CountBound ==
    IsDoc(file) => Len(file.search_queries) <= MAX_CACHE_ENTRIES

\* C4: the total_queries that info() reports is at most max_entries.
C4_InfoWithinMax ==
    last.op = "info" => (~last.raised /\ last.val <= MAX_CACHE_ENTRIES)

\* info has just reported max_entries for a file that holds more than that
C4_Witness ==
    /\ last.op = "info"
    /\ last.val = MAX_CACHE_ENTRIES
    /\ IsDoc(file)
    /\ Len(file.search_queries) > MAX_CACHE_ENTRIES

\* C5: the persisted store never takes more bytes than the size budget.
C5_SizeBound ==
    IsDoc(file) => FileSize(file) <= MAX_CACHE_SIZE

\* C6: a call that rewrites the store drops only entries that are no newer
\* than every entry it keeps (the key a clear_one or a get names aside), so
\* the entries kept are the most recently written ones.
C6_EvictsOldest ==
    [][(IsDoc(file) /\ IsDoc(file') /\ last'.op \in {"put", "get", "clear_one"})
       => \A i \in 1..Len(file.search_queries) :
              LET e == file.search_queries[i]
              IN  (/\ ~HasKey(file'.search_queries, e.key)
                   /\ ~(last'.op \in {"get", "clear_one"} /\ e.key = last'.key))
                  => \A j \in 1..Len(file'.search_queries) :
                         e.timestamp <= file'.search_queries[j].timestamp]_vars

\* a put has just persisted a store from which its load evicted an entry
C6_Witness ==
    /\ last.op = "put"
    /\ last.ok
    /\ last.evicted # {}
    /\ IsDoc(file)
    /\ last.evicted \cap KeysOf(file.search_queries) = {}

\* C7: when two callers have each completed a put, with different keys, the
\* persisted store holds both entries.
C7_NoLostUpdate ==
    (pc[1] = "done" /\ pc[2] = "done" /\ arg[1] # arg[2])
        => (Persisted(file, arg[1]) /\ Persisted(file, arg[2]))

\* C8: whatever step a save is interrupted at, the store file changes only by
\* becoming the complete document being saved, in the one step of the rename.
C8_AtomicPersist ==
    [][file' # file
       => \E w \in active :
              /\ pc[w] = "written"
              /\ pc'[w] = "done"
              /\ file' = Doc(mem[w].search_queries, Len(mem[w].search_queries))]_vars

\* the writer died between opening the temporary file and closing it, and the
\* store file still holds the previous complete document
C8_Witness ==
    /\ last.op = "crash"
    /\ tmp.kind = "partial"
    /\ IsDoc(file)
    /\ file.search_queries # <<>>

\* C9: a call that loads a store which is unparsable or not of the document
\* shape renames that file aside, so that the content is in the quarantine and
\* no longer at the store path.
C9_CorruptedQuarantined ==
    [][(last'.op \in LoadOps /\ file.kind \in {"garbage", "nondict"})
       => (last'.quarantined = file.kind /\ file'.kind # file.kind)]_vars

\* C10: for a missing, unreadable, unparsable or wrongly shaped file, load
\* yields an empty store and a get neither raises nor returns a payload.
BrokenKinds == {"missing", "unreadable", "garbage", "nondict"}
C10_LoadNeverRaises ==
    [][file.kind \in BrokenKinds
       => /\ LoadCache(file, now) = CreateEmptyCache
          /\ last'.op = "get" => (~last'.raised /\ last'.val = Absent)]_vars

\* a get has just run on a store file that is unreadable or of the wrong shape
C10_Witness ==
    /\ last.op = "get"
    /\ ~last.raised
    /\ last.val = Absent
    /\ file.kind \in {"unreadable", "nondict"}

\* C11: when the save inside a put or a clear_one fails (the temporary file
\* cannot be written, or the rename fails), the call returns False without
\* raising and the store file keeps the entries it had: a document is left
\* exactly as it was.
C11_SaveFailureReported ==
    [][(last'.op \in {"put", "clear_one"} /\ last'.fault # "none")
       => /\ ~last'.raised
          /\ ~last'.ok
          /\ file'.search_queries = file.search_queries
          /\ IsDoc(file) => file' = file]_vars

\* a put of a new key has just failed at the rename and the store still holds
\* the document it held, without that key
C11_Witness ==
    /\ last.op = "put"
    /\ last.fault = "rename"
    /\ ~last.ok
    /\ IsDoc(file)
    /\ file.search_queries # <<>>
    /\ ~Persisted(file, last.key)

\* C12: after a put of a key and a payload, a second put of the same key and
\* payload does not change what a get of the key returns: put; put; get
\* returns what put; get returns, the get being made at the same clock
\* reading in both and within the expiry window of the first put.
C12_PutIdempotent ==
    [][(last'.op = "put" /\ last'.ok)
       => LET k == last'.key
              r == Lookup(file'.search_queries, k).results
          IN  \A t2 \in now'..MaxTime : \A t3 \in t2..MaxTime :
                  (t3 - now' <= CACHE_EXPIRY)
                      => GetVal(PutFile(file', k, r, t2), k, t3)
                             = GetVal(file', k, t3)]_vars

\* C13: a document that a call has just saved loads back, with nothing done
\* in between and at the same clock reading, as a document with the same
\* keys, the same entries and the same total_queries.
EntriesOf(q) == {q[i] : i \in 1..Len(q)}
C13_RoundTrip ==
    [][(last'.op \in LoadOps /\ IsDoc(file') /\ file' # file)
       => LET loaded == LoadCache(file', now')
          IN  /\ ~loaded.error
              /\ EntriesOf(loaded.search_queries) = EntriesOf(file'.search_queries)
              /\ loaded.total_queries = file'.total_queries]_vars

\* C14: clear_one(key) on a store document removes the entry of key when the
\* document has one and leaves every other entry that is not expired in the
\* store as it was; when the document has no entry for key the store file is
\* not changed and the call returns True.
C14_ClearOneFrame ==
    [][(last'.op = "clear_one" /\ IsDoc(file))
       => IF Persisted(file, last'.key)
          THEN /\ ~Persisted(file', last'.key)
               /\ \A e \in EntriesOf(file.search_queries) :
                      (e.key # last'.key /\ ~IsExpired(e.timestamp, now))
                          => (IsDoc(file') /\ e \in EntriesOf(file'.search_queries))
          ELSE file' = file /\ last'.ok]_vars

\* ---- deduplication
Range(q) == {q[i] : i \in 1..Len(q)}
Matches(i, j) == IsSamePerson(leads[i], leads[j], SIMILARITY_THRESHOLD)
\* the indices taken by the clusters that come before the k-th
ConsumedBefore(k) == UNION {Range(clusters[m]) : m \in 1..(k - 1)}
SeedOf(k) == clusters[k][1]

\* C15: a record that comes after a cluster's seed and is not yet consumed
\* joins the cluster iff it matches the seed as it came in; a record that
\* matches a member of the cluster but not the seed is not in the cluster.
C15_MatchAgainstSeed ==
    stage = "done" =>
        \A k \in 1..Len(clusters) :
            /\ \A j \in (SeedOf(k) + 1)..Len(leads) :
                   j \notin ConsumedBefore(k)
                       => (j \in Range(clusters[k]) <=> Matches(SeedOf(k), j))
            /\ \A b \in Range(clusters[k]), c \in 1..Len(leads) :
                   ((Matches(b, c) \/ Matches(c, b)) /\ ~Matches(SeedOf(k), c))
                       => c \notin Range(clusters[k])

\* a cluster has taken a member, and a later record that matches that member
\* but not the seed was left to be a seed itself
C15_Witness ==
    /\ stage = "done"
    /\ \E k \in 1..Len(clusters) :
           \E b \in Range(clusters[k]) \ {SeedOf(k)}, c \in 1..Len(leads) :
               /\ c > b
               /\ Matches(b, c)
               /\ ~Matches(SeedOf(k), c)
               /\ \E m \in 1..Len(clusters) : m # k /\ SeedOf(m) = c

\* the leads of a cluster merged one after the other into its seed
RECURSIVE MergeInOrder(_, _, _)
MergeInOrder(batch, acc, indices) ==
    IF indices = <<>> THEN acc
    ELSE MergeInOrder(batch, MergeLeadData(acc, batch[Head(indices)]), Tail(indices))
MergedCluster(batch, members) == MergeInOrder(batch, batch[Head(members)], Tail(members))
FirstFree(k) == CHOOSE i \in 1..Len(leads) \ ConsumedBefore(k) :
                    \A j \in 1..Len(leads) \ ConsumedBefore(k) : i <= j

\* C16: the output has one record per cluster, in the input order of the
\* seeds: the seed of the k-th output record is the first record in input
\* order that no earlier seed consumed, and the k-th output record is the
\* merge of that seed's cluster.
C16_SeedOrder ==
    stage = "done" =>
        /\ Len(processed) = Len(clusters)
        /\ UNION {Range(clusters[k]) : k \in 1..Len(clusters)} = 1..Len(leads)
        /\ \A k \in 1..Len(clusters) :
               /\ SeedOf(k) = FirstFree(k)
               /\ processed[k] = MergedCluster(leads, clusters[k])

\* two clusters came out, the first with a member that stands behind the seed
\* of the second in the input
C16_Witness ==
    /\ stage = "done"
    /\ Len(processed) >= 2
    /\ Len(clusters[1]) >= 2
    /\ SeedOf(2) < clusters[1][2]
    /\ processed[1] # processed[2]

\* where the record leads[x] stands in the other order
PosInOther(x) == CHOOSE i \in 1..Len(leads) : perm[i] = x
\* every seed still stands before the seeds that followed it and before the
\* members of its own cluster
SeedsKeepOrder ==
    \A k \in 1..Len(clusters) :
        /\ \A m \in 1..Len(clusters) :
               k < m => PosInOther(SeedOf(k)) < PosInOther(SeedOf(m))
        /\ \A x \in Range(clusters[k]) \ {SeedOf(k)} :
               PosInOther(SeedOf(k)) < PosInOther(x)
\* the records of every cluster still stand in the order they had
MembersKeepOrder ==
    \A k \in 1..Len(clusters) :
        \A x, y \in Range(clusters[k]) : x < y => PosInOther(x) < PosInOther(y)

\* C17 as stated: two batches that are permutations of each other, every
\* seed keeping its place relative to the other seeds and to its cluster,
\* give identical outputs.
C17_SameUnderReordering ==
    (stage = "done" /\ SeedsKeepOrder) => otherProcessed = processed

\* C17 amended: two batches that are permutations of each other give
\* identical outputs when the seeds keep their relative order and the records
\* of every cluster keep theirs.
C17_SameWhenClustersKeepOrder ==
    (stage = "done" /\ SeedsKeepOrder /\ MembersKeepOrder)
        => otherProcessed = processed

\* a batch of two clusters, one of them with a member, was deduplicated in
\* another order that leaves the seeds and every cluster in order
C17_Witness ==
    /\ stage = "done"
    /\ perm # [i \in 1..Len(leads) |-> i]
    /\ SeedsKeepOrder
    /\ MembersKeepOrder
    /\ Len(clusters) >= 2
    /\ \E k \in 1..Len(clusters) : Len(clusters[k]) >= 2
    /\ otherProcessed = processed

\* ---- the merge of two leads
\* the value the claim gives a combined text field
Combined(a, b) ==
    IF a = <<>> THEN b
    ELSE IF b = <<>> \/ a = b THEN a
    ELSE a \o <<SEMICOLON, SPACE>> \o b
\* the record accumulated from the first m members of the k-th cluster
Accumulated(k, m) == MergedCluster(leads, SubSeq(clusters[k], 1, m))

ClaimedPriority(pos) ==
    IF pos = "Corresponding Author" THEN 4
    ELSE IF pos = "First Author" THEN 3
    ELSE IF pos = "Last Author" THEN 2
    ELSE IF pos = "Co-Author" THEN 1
    ELSE 0

\* C19: a merge replaces the accumulated author_position by the other
\* record's iff the other's priority is strictly higher (Corresponding Author
\* 4, First Author 3, Last Author 2, Co-Author 1, anything else 0), so the
\* merged record of a cluster carries a position of its members whose
\* priority none of them exceeds.
C19_PositionByPriority ==
    stage = "done" =>
        \A k \in 1..Len(clusters) :
            /\ \A m \in 1..(Len(clusters[k]) - 1) :
                   LET A == Accumulated(k, m)
                       B == leads[clusters[k][m + 1]]
                   IN  Accumulated(k, m + 1).author_position =
                           IF ClaimedPriority(B.author_position)
                                  > ClaimedPriority(A.author_position)
                           THEN B.author_position
                           ELSE A.author_position
            /\ \E x \in Range(clusters[k]) :
                   processed[k].author_position = leads[x].author_position
            /\ \A x \in Range(clusters[k]) :
                   ClaimedPriority(leads[x].author_position)
                       <= ClaimedPriority(processed[k].author_position)

\* a Co-Author seed was merged with a Corresponding Author and then with a
\* First Author, and the merged record says Corresponding Author
C19_Witness ==
    /\ stage = "done"
    /\ Len(leads) = 3
    /\ Len(processed) = 1
    /\ leads[1].author_position = "Co-Author"
    /\ leads[2].author_position = "Corresponding Author"
    /\ leads[3].author_position = "First Author"
    /\ processed[1].author_position = "Corresponding Author"

\* ---- scoring
\* C20: the score_breakdown that score returns has exactly the keys role_fit,
\* scientific_intent, company_intent, technographic and location, each a
\* natural number of at most 30, 40, 20, 15 and 10, and propensity_score is
\* the smaller of 100 and their sum.
C20_BreakdownWithinMaxima ==
    scored # <<>> =>
        LET b == scored[1].score_breakdown
            sum == b.role_fit + b.scientific_intent + b.company_intent
                       + b.technographic + b.location
        IN  /\ DOMAIN b = {"role_fit", "scientific_intent", "company_intent",
                            "technographic", "location"}
            /\ b.role_fit \in 0..30
            /\ b.scientific_intent \in 0..40
            /\ b.company_intent \in 0..20
            /\ b.technographic \in 0..15
            /\ b.location \in 0..10
            /\ scored[1].propensity_score = (IF sum < 100 THEN sum ELSE 100)

\* a lead that every rule rewards was scored: the five sub-scores add up to
\* 115 and the score is 100
C20_Witness ==
    /\ scored # <<>>
    /\ scored[1].score_breakdown =
           [role_fit |-> 30, scientific_intent |-> 40, company_intent |-> 20,
            technographic |-> 15, location |-> 10]
    /\ scored[1].propensity_score = 100

\* the publication title of the scored lead contains a domain keyword
KeywordMatched ==
    /\ lead[1].publication_title # <<>>
    /\ AnyIn(scientific_keywords, LowerText(lead[1].publication_title))
\* the publication date of the scored lead starts with a 4-digit year
YearParses ==
    /\ Len(lead[1].publication_date) >= 4
    /\ IsNumber(SubSeq(lead[1].publication_date, 1, 4))

\* C21: when the publication title contains a domain keyword and the
\* publication date starts with a parsable 4-digit year, scientific_intent is
\* 40 if current_year - year <= 2 and 0 otherwise; when the date is absent or
\* unparsable, the keyword match alone gives 40.
C21_RecencyGate ==
    (scored # <<>> /\ KeywordMatched) =>
        scored[1].score_breakdown.scientific_intent =
            (IF YearParses
                  /\ current_year - IntOf(SubSeq(lead[1].publication_date, 1, 4)) > 2
             THEN 0 ELSE 40)

\* ---- ranking
LeadKeys == {"name", "linkedin_title", "title", "publication_title", "publication_date",
             "company_funding_stage", "company_industry", "person_location", "company_hq"}
ScoreKeys == {"propensity_score", "score_breakdown", "priority_level"}
\* the part of a ranked record that came with the lead, and the part scoring added
LeadOf(r) == [k \in LeadKeys |-> r[k]]
ScoreOf(r) == [k \in ScoreKeys |-> r[k]]
\* ways to tell which input record each output record came from
Origins ==
    {p \in PermutationsOf(Len(stage2_data)) :
        \A k \in 1..Len(stage2_data) : LeadOf(ranked[1][k]) = stage2_data[p[k]]}

\* C22: when scoring a record of the batch fails, the output of run_stage3
\* still has one record per input record; the failing record has
\* propensity_score 0, an all-zero breakdown of five keys and priority_level
\* Low, and every other record has the score data scoring gives it.
C22_FailureIsolated ==
    ranked # <<>> =>
        /\ Len(ranked[1]) = Len(stage2_data)
        /\ Origins # {}
        /\ \A k \in 1..Len(ranked[1]) :
               LET r == ranked[1][k]
               IN  IF Raises(LeadOf(r))
                   THEN /\ r.propensity_score = 0
                        /\ r.score_breakdown =
                               [role_fit |-> 0, scientific_intent |-> 0,
                                company_intent |-> 0, technographic |-> 0,
                                location |-> 0]
                        /\ r.priority_level = "Low"
                   ELSE ScoreOf(r) =
                            CalculatePropensityScore(ScoredFields(LeadOf(r)), current_year)

\* a batch with a record whose scoring fails and a record that scores above
\* zero was ranked
C22_Witness ==
    /\ ranked # <<>>
    /\ \E i, j \in 1..Len(stage2_data) :
           /\ Raises(stage2_data[i])
           /\ ~Raises(stage2_data[j])
    /\ \E k \in 1..Len(ranked[1]) :
           ~Raises(LeadOf(ranked[1][k])) /\ ranked[1][k].propensity_score > 0

\* C23: every record of the ranked output has the rank 1 + (number of records
\* of the batch with a strictly higher score), so tied records share a rank,
\* the first record has rank 1 and the rank after a tie group skips by the
\* size of the group.
C23_CompetitionRanks ==
    ranked # <<>> =>
        \A i \in 1..Len(ranked[1]) :
            ranked[1][i].rank =
                1 + Cardinality({j \in 1..Len(ranked[1]) :
                        ranked[1][j].propensity_score > ranked[1][i].propensity_score})

\* two tied records at the top were followed by a lower one, ranked 1, 1, 3
C23_Witness ==
    /\ ranked # <<>>
    /\ Len(ranked[1]) = 3
    /\ ranked[1][1].propensity_score = ranked[1][2].propensity_score
    /\ ranked[1][2].propensity_score > ranked[1][3].propensity_score
    /\ <<ranked[1][1].rank, ranked[1][2].rank, ranked[1][3].rank>> = <<1, 1, 3>>

\* C24: the priority_level of a scored lead is High exactly when its
\* propensity_score is at least 80, Medium exactly when it is between 50 and
\* 79, and Low exactly when it is below 50.
C24_LevelByScore ==
    scored # <<>> =>
        /\ scored[1].priority_level \in {"High", "Medium", "Low"}
        /\ scored[1].priority_level = "High" <=> scored[1].propensity_score >= 80
        /\ scored[1].priority_level = "Medium" <=> scored[1].propensity_score \in 50..79
        /\ scored[1].priority_level = "Low" <=> scored[1].propensity_score < 50

\* a lead was scored exactly 80 and is High
C24_Witness ==
    /\ scored # <<>>
    /\ scored[1].propensity_score = 80
    /\ scored[1].priority_level = "High"

\* C25: two records of the ranked output that have equal scores stand in the
\* order in which they stood in the input of run_stage3.
C25_StableSort ==
    ranked # <<>> =>
        \E p \in Origins :
            \A k, l \in 1..Len(ranked[1]) :
                (k < l /\ ranked[1][k].propensity_score = ranked[1][l].propensity_score)
                    => p[k] < p[l]

\* two different leads with equal scores were ranked, the one that came first
\* in the input standing first in the output, behind a lead that came last
C25_Witness ==
    /\ ranked # <<>>
    /\ Len(stage2_data) = 3
    /\ stage2_data[1].name = "dee"
    /\ stage2_data[2].name = "cyd"
    /\ stage2_data[3].name = "ada"
    /\ <<ranked[1][1].name, ranked[1][2].name, ranked[1][3].name>> = <<"ada", "dee", "cyd">>

\* ---- merging, continued
\* the places in the k-th cluster of the members that have a location
Located(k) == {m \in 1..Len(clusters[k]) : leads[clusters[k][m]].location # <<>>}
FirstLocated(k) == CHOOSE m \in Located(k) : \A n \in Located(k) : m <= n

\* C26: once the record accumulated for a cluster has a non-empty location,
\* no later merge changes it, and the merged record has the location of the
\* first member of the cluster, in input order, that has one.
C26_LocationNeverOverwritten ==
    stage = "done" =>
        \A k \in 1..Len(clusters) :
            /\ \A m \in 1..(Len(clusters[k]) - 1) :
                   Accumulated(k, m).location # <<>>
                       => Accumulated(k, m + 1).location = Accumulated(k, m).location
            /\ processed[k].location =
                   (IF Located(k) = {} THEN <<>>
                    ELSE leads[clusters[k][FirstLocated(k)]].location)

\* a cluster of three was merged whose seed has no location and whose second
\* and third members have different ones: the second member's is kept
C26_Witness ==
    /\ stage = "done"
    /\ \E k \in 1..Len(clusters) :
           /\ Len(clusters[k]) = 3
           /\ leads[clusters[k][1]].location = <<>>
           /\ leads[clusters[k][2]].location # <<>>
           /\ leads[clusters[k][3]].location # <<>>
           /\ leads[clusters[k][3]].location # leads[clusters[k][2]].location
           /\ processed[k].location = leads[clusters[k][2]].location

\* ---- deduplication inside run_stage1
\* the records of the batch whose publication_date is a string or missing
RECURSIVE WellTyped(_)
WellTyped(batch) ==
    IF batch = <<>> THEN <<>>
    ELSE IF Head(batch).publication_date = YEAR_NUMBER THEN WellTyped(Tail(batch))
    ELSE <<Head(batch)>> \o WellTyped(Tail(batch))

\* C27: a merge that raises is isolated to its record: every name of the
\* batch is still in the output of the stage, and the output is no longer than
\* the deduplicated rest of the batch plus the records that cannot be merged.
C27_MergeFailureIsolated ==
    stage = "done" =>
        /\ \A i \in 1..Len(leads) :
               \E k \in 1..Len(processed) : processed[k].name = leads[i].name
        /\ Len(processed) <=
               Len(DeduplicateLeads(WellTyped(leads)))
                   + (Len(leads) - Len(WellTyped(leads)))

\* ---- the store, continued
\* C29: a get whose key is not in the store, or whose entry is not expired,
\* leaves the store as it is: the entries of the store file, their
\* timestamps and payloads are the same afterwards, a parsable file is the
\* same file, and no temporary file is written.
C29_ReadLeavesStore ==
    [][(/\ last'.op = "get"
        /\ ~last'.raised
        /\ \/ ~Persisted(file, last'.key)
           \/ Age(file, last'.key, now') <= CACHE_EXPIRY)
       => /\ file'.search_queries = file.search_queries
          /\ IsDoc(file) => file' = file
          /\ tmp' = tmp]_vars

\* a get returned a payload from a store holding more entries than the
\* maximum, its load having evicted another key, and both are still stored
C29_Witness ==
    /\ last.op = "get"
    /\ last.val # Absent
    /\ last.evicted # {}
    /\ IsDoc(file)
    /\ last.evicted \subseteq KeysOf(file.search_queries)
    /\ Persisted(file, last.key)

\* ---- deduplication, continued
\* the clusters an input index belongs to
ClustersOf(i) == {k \in 1..Len(clusters) : i \in Range(clusters[k])}

\* C30: deduplicate_leads partitions its input: every input index belongs to
\* exactly one cluster, once, as its seed or behind a seed with a smaller
\* index; there is one output record per seed, at least one for a non-empty
\* batch and at most as many as the batch has records.
C30_Partition ==
    stage = "done" =>
        /\ \A i \in 1..Len(leads) : Cardinality(ClustersOf(i)) = 1
        /\ \A k \in 1..Len(clusters) :
               /\ clusters[k] # <<>>
               /\ Cardinality(Range(clusters[k])) = Len(clusters[k])
               /\ Range(clusters[k]) \subseteq 1..Len(leads)
               /\ \A m \in 2..Len(clusters[k]) : clusters[k][m] > SeedOf(k)
        /\ Len(processed) = Len(clusters)
        /\ leads # <<>> => Len(processed) >= 1
        /\ Len(processed) <= Len(leads)

\* a batch of three was deduplicated into a cluster of two, whose members
\* are not neighbours, and a cluster of one
C30_Witness ==
    /\ stage = "done"
    /\ Len(leads) = 3
    /\ clusters = <<(<<1, 3>>), (<<2>>)>>
    /\ Len(processed) = 2

\* ---- ingestion
\* the step is the cache read of run_stage1 for the keyword it stands at
ReadsCache == run.phase = "get" /\ run.idx <= Len(criteria) /\ run' # run
\* a search of that keyword was cached and the read falls inside its expiry
\* window
CachedInWindow ==
    /\ fetched[criteria[run.idx]].at # Absent
    /\ now' - fetched[criteria[run.idx]].at <= CACHE_EXPIRY
\* the read takes the cached records and goes on to the next keyword
ServedFromCache ==
    /\ run'.phase = "get"
    /\ run'.searched = run.searched
    /\ run'.all_results =
           run.all_results \o Records(criteria[run.idx], fetched[criteria[run.idx]].count)
\* a search is made only after a read that returned nothing
SearchOnlyWhenAbsent ==
    Len(run'.searched) > Len(run.searched)
        => run.phase = "search" /\ run.cached_results = Absent

\* C28 as stated: the external search is invoked only when the read of the
\* keyword's cache key returned absent, and once a search that returned
\* records was cached, a run inside the expiry window makes no search for that
\* keyword and uses the same records.
C28_ReadThrough ==
    [][/\ SearchOnlyWhenAbsent
       /\ (ReadsCache /\ CachedInWindow) => ServedFromCache]_vars

\* C28: the external search is invoked only when the read of the keyword's
\* cache key returned absent, and once a search that returned records was
\* cached, a run inside the expiry window makes no search for that keyword
\* and uses the same records, unless the entry limit has evicted the keyword's
\* entry: in a save since the search, or in what the read itself loaded.
C28_ReadThroughUnlessEvicted ==
    [][/\ SearchOnlyWhenAbsent
       /\ (/\ ReadsCache
           /\ CachedInWindow
           /\ ~fetched[criteria[run.idx]].evicted
           /\ criteria[run.idx] \notin last'.evicted) => ServedFromCache]_vars

\* a run has returned records without a search, from the cache alone, while
\* the source would now return something else for its first keyword
C28_Witness ==
    /\ run.phase = "done"
    /\ criteria # <<>>
    /\ run.searched = <<>>
    /\ run.returned # <<>>
    /\ fetched[criteria[1]].at # Absent
    /\ pubmed[criteria[1]] # fetched[criteria[1]].count

====
